---------------------------- MODULE Spec2Model ----------------------------
(***************************************************************************)
(* Sobel-Morphostructure-KZ: the two Earth Engine scripts, scripts/SOBEL.js *)
(* (threshold, zone mask, orientation, orientation histogram, overlap       *)
(* metrics against fault buffers) and ENRICHMENT.js (zone share, deposit    *)
(* flags, enrichment index, edge distance, enrichment trade-off).           *)
(*                                                                         *)
(* The raster is one row of NCells pixels of the DEM grid (a transect):     *)
(* pixel c has centre c, pixels are SCALE metres apart, positions outside   *)
(* 1..NCells are outside the raster extent.  An image maps each pixel to    *)
(* [m |-> mask bit, v |-> value]; a masked pixel carries m = FALSE.         *)
(* Numbers the scripts divide are exact rationals <<n, d>> with d > 0.      *)
(* Angles are in millidegrees.                                             *)
(***************************************************************************)
EXTENDS Integers, Sequences, FiniteSets

\* ----------------------------------------------------------------- bounds
NCells == 4
NDeposits == 1

Cells == 1..NCells

\* -------------------------------------------------------------- parameters
TOP_SHARE == 15
TOP_PCTL == 100 - TOP_SHARE
BUF_LIST_M == <<1000, 3000, 6000>>
BIN_SIZE == 15
SCALE == 90
ENR_TOP_PCTL == 85
PCTL_LIST == <<70, 75, 80, 85, 90, 95>>

\* ------------------------------------------------------- exact arithmetic
Abs(x) == IF x < 0 THEN -x ELSE x

Max(a, b) == IF a >= b THEN a ELSE b

RECURSIVE GCD(_, _)
GCD(a, b) == IF b = 0 THEN a ELSE GCD(b, a % b)

Rat(n, d) ==
  LET g == GCD(Abs(n), Abs(d))
      s == IF d < 0 THEN -1 ELSE 1
  IN  <<(s * n) \div g, (s * d) \div g>>

Zero == <<0, 1>>

FromInt(i) == <<i, 1>>

NumAdd(a, b) == Rat(a[1] * b[2] + b[1] * a[2], a[2] * b[2])

NumMultiply(a, b) == Rat(a[1] * b[1], a[2] * b[2])

\* ee.Number.divide: "Divides the first value by the second, returning 0 for
\* division by 0."
NumDivide(a, b) == IF b[1] = 0 THEN Zero ELSE Rat(a[1] * b[2], a[2] * b[1])

NumLt(a, b) == a[1] * b[2] < b[1] * a[2]

NumLe(a, b) == a[1] * b[2] <= b[1] * a[2]

\* Math.sqrt on the perfect squares the gradient pairs of the model produce.
Sqrt(n) == CHOOSE r \in 0..n : r * r = n

\* ------------------------------------------------------------------ images
Masked == [m |-> FALSE, v |-> 0]

Px(v) == [m |-> TRUE, v |-> v]

\* image.gte(number): 1 where value >= number, 0 elsewhere, input mask kept.
Gte(img, t) ==
  [c \in Cells |-> IF img[c].m THEN Px(IF img[c].v >= t THEN 1 ELSE 0) ELSE Masked]

\* image.selfMask(): masks the pixels whose value is zero.
SelfMask(img) ==
  [c \in Cells |-> IF img[c].m /\ img[c].v # 0 THEN img[c] ELSE Masked]

\* image.updateMask(mask): a pixel stays where the mask image is unmasked and
\* non-zero.
UpdateMask(img, mask) ==
  [c \in Cells |-> IF img[c].m /\ mask[c].m /\ mask[c].v # 0 THEN img[c] ELSE Masked]

\* image.unmask(0)
Unmask0(img) == [c \in Cells |-> IF img[c].m THEN img[c] ELSE Px(0)]

ValidCells(img) == {c \in Cells : img[c].m}

\* sobelMag = sqrt(gx^2 + gy^2); masked where the derivatives are masked.
Magnitude(gx, gy) ==
  [c \in Cells |->
     IF gx[c].m /\ gy[c].m
     THEN Px(Sqrt(gx[c].v * gx[c].v + gy[c].v * gy[c].v))
     ELSE Masked]

\* ee.Reducer.percentile([p]) over the unmasked pixels of the region: the
\* value of rank ceil(p * n / 100) among the n sorted values (nearest rank, no
\* interpolation); ok = FALSE when the region holds no valid pixel
\* (reduceRegion yields null).
PercentileRank(p, n) == Max(1, (p * n + 99) \div 100)

PercentileFromTop(img, p) ==
  LET V == ValidCells(img)
      n == Cardinality(V)
      k == PercentileRank(p, n)
  IN  IF n = 0 THEN [ok |-> FALSE, v |-> 0]
      ELSE [ok |-> TRUE,
            v  |-> CHOOSE x \in {img[c].v : c \in V} :
                     /\ Cardinality({c \in V : img[c].v >= x}) >= k
                     /\ Cardinality({c \in V : img[c].v > x}) < k]

Percentile(img, p) ==
  LET V == ValidCells(img)
      n == Cardinality(V)
      k == PercentileRank(p, n)
  IN  IF n = 0 THEN [ok |-> FALSE, v |-> 0]
      ELSE [ok |-> TRUE,
            v  |-> CHOOSE x \in {img[c].v : c \in V} :
                     /\ Cardinality({c \in V : img[c].v <= x}) >= k
                     /\ Cardinality({c \in V : img[c].v < x}) < k]

\* sobelMag.gte(thr).selfMask()
ZoneMaskGt(mag, t) == SelfMask([c \in Cells |->
     IF mag[c].m THEN Px(IF mag[c].v > t THEN 1 ELSE 0) ELSE Masked])

ZoneMask(mag, t) == SelfMask(Gte(mag, t))


\* ------------------------------------------------------------- orientation
\* atan(a / b) for a, b >= 0, not both zero, in millidegrees, on the slopes the
\* gradient pairs of the model produce (0, 3/4, 1, 4/3, vertical).
AtanMilli(a, b) ==
  CASE a = 0         -> 0
    [] b = 0         -> 90000
    [] a = b         -> 45000
    [] 4 * a = 3 * b -> 36870
    [] 3 * a = 4 * b -> 53130

\* atan2(y, x) * 180 / PI, in millidegrees: in (-180000, 180000].
Atan2Milli(y, x) ==
  CASE x = 0 /\ y = 0 -> 0
    [] x > 0 /\ y >= 0 -> AtanMilli(y, x)
    [] x > 0 /\ y < 0  -> 0 - AtanMilli(-y, x)
    [] x = 0 /\ y > 0  -> 90000
    [] x = 0 /\ y < 0  -> -90000
    [] x < 0 /\ y >= 0 -> 180000 - AtanMilli(y, -x)
    [] x < 0 /\ y < 0  -> AtanMilli(-y, -x) - 180000

\* theta = sobelY.atan2(sobelX).multiply(180/Math.PI).add(360).mod(180)
Theta(gy, gx) == (Atan2Milli(gy, gx) + 360000) % 180000

StrikeNoFold(gy, gx) == Theta(gy, gx) + 90000

\* theta.add(90).mod(180)
Strike(gy, gx) == (Theta(gy, gx) + 90000) % 180000

\* orientation = theta.add(90).mod(180).updateMask(sobelMask)
OrientationImage(gx, gy, mask) ==
  UpdateMask([c \in Cells |->
                IF gx[c].m /\ gy[c].m THEN Px(Strike(gy[c].v, gx[c].v)) ELSE Masked],
             mask)

\* ---------------------------------------------------- orientation histogram
\* ee.List.sequence(start, end, step): start, start + step, ... up to end.
ListSequence(start, end, step) ==
  [i \in 1..((end - start) \div step + 1) |-> start + (i - 1) * step]

BinsOf(w) == ListSequence(0, 180 - w, w)

BINS == BinsOf(BIN_SIZE)

InBinClosed(orient, start, end) ==
  [c \in Cells |->
     IF orient[c].m
     THEN Px(IF orient[c].v >= start * 1000 /\ orient[c].v <= end * 1000 THEN 1 ELSE 0)
     ELSE Masked]

\* orientation.gte(start).and(orientation.lt(end))
InBin(orient, start, end) ==
  [c \in Cells |->
     IF orient[c].m
     THEN Px(IF orient[c].v >= start * 1000 /\ orient[c].v < end * 1000 THEN 1 ELSE 0)
     ELSE Masked]

\* reduceRegion(ee.Reducer.count()) over the AOI: the unmasked pixels.
CountReducer(img) == Cardinality(ValidCells(img))

\* The feature of one bin: count = ee.Algorithms.If(cnt, cnt, 0).
BinFeature(orient, start, w) ==
  LET end == start + w
      cnt == CountReducer(UpdateMask(orient, InBin(orient, start, end)))
  IN  [binStart |-> start, binEnd |-> end, count |-> IF cnt # 0 THEN cnt ELSE 0]

HistogramOf(orient, w) ==
  [i \in 1..Len(BinsOf(w)) |-> BinFeature(orient, BinsOf(w)[i], w)]


\* ----------------------------------------------------------------- areas
\* ee.Image.pixelArea(): the area of each pixel in square metres.
areaImg == [c \in Cells |-> Px(SCALE * SCALE)]

AOI == Cells

RECURSIVE SumOver(_, _)
SumOver(img, S) ==
  IF S = {} THEN 0
  ELSE LET c == CHOOSE x \in S : TRUE
       IN  (IF img[c].m THEN img[c].v ELSE 0) + SumOver(img, S \ {c})

\* reduceRegion(ee.Reducer.sum(), geometry).get('area'), divided by 1e6 (km2).
AreaKm2(img, geom) == Rat(SumOver(img, geom), 1000000)

\* ee.Image.constant(1)
Constant1 == [c \in Cells |-> Px(1)]

\* FAULTS.geometry().buffer(bufferMeters).intersection(AOI.geometry(), 1):
\* the pixels of the AOI within bufferMeters of a fault vertex.
BufGeom(faults, bufferMeters) ==
  {c \in AOI : \E f \in faults : Abs(c - f) * SCALE <= bufferMeters}

F1NoDouble(precision, recall) ==
  NumDivide(NumMultiply(precision, recall), NumAdd(precision, recall))

\* f1 = precision.multiply(recall).multiply(2).divide(precision.add(recall))
F1(precision, recall) ==
  NumDivide(NumMultiply(NumMultiply(precision, recall), FromInt(2)),
            NumAdd(precision, recall))

PendingMetrics ==
  [status |-> "pending", buffer_km |-> Zero, area_sobel_km2 |-> Zero,
   area_fault_km2 |-> Zero, area_intersect_km2 |-> Zero,
   precision_pct |-> Zero, recall_pct |-> Zero, f1_pct |-> Zero]

ErrorMetrics == [PendingMetrics EXCEPT !.status = "error"]

overlapMetrics(mask, faults, bufferMeters) ==
  LET bufGeom     == BufGeom(faults, bufferMeters)
      A_sobel     == AreaKm2(UpdateMask(areaImg, mask), AOI)
      A_fault     == AreaKm2(UpdateMask(areaImg, Constant1), bufGeom)
      A_intersect == AreaKm2(UpdateMask(areaImg, mask), bufGeom)
      precision   == NumMultiply(NumDivide(A_intersect, A_sobel), FromInt(100))
      recall      == NumMultiply(NumDivide(A_intersect, A_fault), FromInt(100))
  IN  [status |-> "done",
       buffer_km |-> Rat(bufferMeters, 1000),
       area_sobel_km2 |-> A_sobel,
       area_fault_km2 |-> A_fault,
       area_intersect_km2 |-> A_intersect,
       precision_pct |-> precision,
       recall_pct |-> recall,
       f1_pct |-> F1(precision, recall)]

\* areaTop.divide(areaAOI).multiply(100)
AreaSharePct(mask) ==
  NumMultiply(NumDivide(FromInt(SumOver(UpdateMask(areaImg, mask), AOI)),
                        FromInt(SumOver(areaImg, AOI))),
              FromInt(100))

\* ---------------------------------------------------------- ENRICHMENT.js
REGION == AOI

\* A_total: area of the region, km2.
ATotal == AreaKm2(areaImg, REGION)

SharePctSwapped(mask) ==
  NumMultiply(NumDivide(ATotal, AreaKm2(UpdateMask(areaImg, mask), REGION)),
              FromInt(100))

\* A_top.divide(A_total).multiply(100), A_top the masked area of the region.
SharePct(mask) ==
  NumMultiply(NumDivide(AreaKm2(UpdateMask(areaImg, mask), REGION), ATotal),
              FromInt(100))

\* mask.sample({region: f.geometry(), numPixels: 1}).first(): a sample exists
\* when the point lies on an unmasked pixel of the mask image.
HasSample(mask, loc) == loc \in Cells /\ mask[loc].m

\* DEPOSITS.map(f => f.set('inside_top', ee.Algorithms.If(v, 1, 0)))
FlagDeposits(mask, deposits) ==
  [i \in 1..Len(deposits) |->
     [loc |-> deposits[i], inside_top |-> IF HasSample(mask, deposits[i]) THEN 1 ELSE 0]]

\* aggregate_sum('inside_top')
RECURSIVE AggregateSum(_)
AggregateSum(fc) ==
  IF fc = <<>> THEN 0 ELSE Head(fc).inside_top + AggregateSum(Tail(fc))

\* ee.Number(dep_inside).divide(dep_total).multiply(100)
InsidePct(fc) ==
  NumMultiply(NumDivide(FromInt(AggregateSum(fc)), FromInt(Len(fc))), FromInt(100))

\* image.fastDistanceTransform(n): squared distance, in pixels, from each
\* pixel to the nearest non-zero pixel within the neighbourhood n; img gives
\* the values on the raster and beyond the value outside its extent.  With no
\* non-zero pixel in the neighbourhood the transform saturates past n.
FastDistanceTransform(img, beyond, n) ==
  [c \in Cells |->
     LET near == {p \in (c - n)..(c + n) :
                    (IF p \in Cells THEN img[p] ELSE beyond) # 0}
     IN  IF near = {} THEN (n + 1) * (n + 1)
         ELSE CHOOSE d \in {(p - c) * (p - c) : p \in near} :
                \A e \in {(p - c) * (p - c) : p \in near} : d <= e]

\* outside = ee.Image(1).subtract(sobelMask.unmask(0)); inside = sobelMask.unmask(0)
InsideImage(mask) == [c \in Cells |-> Unmask0(mask)[c].v]

OutsideImage(mask) == [c \in Cells |-> 1 - Unmask0(mask)[c].v]

\* distEdge_m = max(distInside, distOutside), each the square root of a
\* fastDistanceTransform(1) times the scale.
DistEdge(mask) ==
  LET scl         == SCALE
      distOutside == FastDistanceTransform(OutsideImage(mask), 1, 1)
      distInside  == FastDistanceTransform(InsideImage(mask), 0, 1)
  IN  [c \in Cells |-> Max(Sqrt(distInside[c]) * scl, Sqrt(distOutside[c]) * scl)]

PendingRow ==
  [status |-> "pending", percentile |-> 0, sobel_thr |-> 0, coverage_pct |-> Zero,
   inside_pct |-> Zero, enrichment |-> Zero]

ErrorRow == [PendingRow EXCEPT !.status = "error"]

TradeoffRowInverted(mag, deposits, pct) ==
  LET thr == Percentile(mag, pct)
  IN  IF ~thr.ok THEN [ErrorRow EXCEPT !.percentile = pct]
      ELSE LET mask     == ZoneMask(mag, thr.v)
               A_share  == SharePct(mask)
               depIn    == FlagDeposits(mask, deposits)
               depInPct == InsidePct(depIn)
               enr      == NumDivide(A_share, depInPct)
           IN  [status |-> "done", percentile |-> pct, sobel_thr |-> thr.v,
                coverage_pct |-> A_share, inside_pct |-> depInPct,
                enrichment |-> enr]

\* One element of results: the trade-off row of percentile pct.
TradeoffRow(mag, deposits, pct) ==
  LET thr == Percentile(mag, pct)
  IN  IF ~thr.ok THEN [ErrorRow EXCEPT !.percentile = pct]
      ELSE LET mask     == ZoneMask(mag, thr.v)
               A_share  == SharePct(mask)
               depIn    == FlagDeposits(mask, deposits)
               depInPct == InsidePct(depIn)
               enr      == NumDivide(depInPct, A_share)
           IN  [status |-> "done", percentile |-> pct, sobel_thr |-> thr.v,
                coverage_pct |-> A_share, inside_pct |-> depInPct,
                enrichment |-> enr]

PlaceRowInCompletionOrder(res, i, row) ==
  LET k == CHOOSE j \in DOMAIN res :
             res[j].status = "pending" /\ \A l \in 1..(j - 1) : res[l].status # "pending"
  IN  [res EXCEPT ![k] = row]

\* ee.FeatureCollection(PCTL_LIST.map(...)): the element of index i holds the
\* row of PCTL_LIST[i].
PlaceRow(res, i, row) == [res EXCEPT ![i] = row]

\* Deposit locations: a pixel of the raster, or 0, outside the raster extent.
Locations == 0..NCells

\* ENRICHMENT.js uses the derivatives through the magnitude only.
MagGrads == {<<-4, 3>>, <<6, -8>>}

MagPixelInputs == {Masked} \cup {[m |-> TRUE, v |-> g] : g \in MagGrads}

\* ------------------------------------------------------------------ inputs
\* Derivative pairs <<gx, gy>> a pixel of the convolved DEM may carry.
Grads == {<<0, 0>>, <<0, -5>>, <<-4, 3>>, <<6, -8>>}

PixelInputs == {Masked} \cup {[m |-> TRUE, v |-> g] : g \in Grads}

\* Fault vertices, as positions along the transect (pixel units).
FaultSites == {-31, -9, 2}

\* ------------------------------------------------------------------- state
VARIABLES script, pc, sobelX, sobelY, FAULTS, DEPOSITS,
          sobelMag, sobelThr, sobelMask, errors,
          orientation, histFC, metricsFC, areaSharePct,
          top_share_pct, depositsFlagged, dep_inside_pct, enrichment,
          distEdge_m, results

vars == <<script, pc, sobelX, sobelY, FAULTS, DEPOSITS,
          sobelMag, sobelThr, sobelMask, errors,
          orientation, histFC, metricsFC, areaSharePct,
          top_share_pct, depositsFlagged, dep_inside_pct, enrichment,
          distEdge_m, results>>

sobelOut == <<orientation, histFC, metricsFC, areaSharePct>>

enrichOut == <<top_share_pct, depositsFlagged, dep_inside_pct, enrichment,
               distEdge_m, results>>

BlankImage == [c \in Cells |-> Masked]

NoThreshold == [ok |-> FALSE, v |-> 0]

inputVars == <<script, sobelX, sobelY, FAULTS, DEPOSITS>>

BlankSobel ==
  /\ orientation = BlankImage
  /\ histFC = <<>>
  /\ metricsFC = [i \in 1..Len(BUF_LIST_M) |-> PendingMetrics]
  /\ areaSharePct = Zero

BlankEnrichment ==
  /\ top_share_pct = Zero
  /\ depositsFlagged = <<>>
  /\ dep_inside_pct = Zero
  /\ enrichment = Zero
  /\ distEdge_m = [c \in Cells |-> 0]
  /\ results = [i \in 1..Len(PCTL_LIST) |-> PendingRow]

\* ------------------------------------------------------------- SOBEL.js
InitSobel ==
  /\ script = "SOBEL"
  /\ pc = "sobel"
  /\ \E px \in [Cells -> PixelInputs] :
       /\ sobelX = [c \in Cells |-> IF px[c].m THEN Px(px[c].v[1]) ELSE Masked]
       /\ sobelY = [c \in Cells |-> IF px[c].m THEN Px(px[c].v[2]) ELSE Masked]
  /\ FAULTS \in SUBSET FaultSites
  /\ DEPOSITS = <<>>
  /\ sobelMag = BlankImage
  /\ sobelThr = NoThreshold
  /\ sobelMask = BlankImage
  /\ errors = {}
  /\ BlankSobel
  /\ BlankEnrichment

\* 2) Sobel filter: magnitude of the two derivative images.
SobelFilter ==
  /\ pc = "sobel"
  /\ sobelMag' = Magnitude(sobelX, sobelY)
  /\ pc' = "threshold"
  /\ UNCHANGED <<inputVars, sobelThr, sobelMask, errors, sobelOut, enrichOut>>

\* 3) sobelThr: the TOP_PCTL-th percentile of the magnitude over the AOI.
Threshold ==
  /\ pc = "threshold"
  /\ script = "SOBEL"
  /\ sobelThr' = Percentile(sobelMag, TOP_PCTL)
  /\ pc' = "mask"
  /\ UNCHANGED <<inputVars, sobelMag, sobelMask, errors, sobelOut, enrichOut>>

\* 3) sobelMask; with no threshold (null) the expression raises.
TopMask ==
  /\ pc = "mask"
  /\ IF sobelThr.ok
     THEN sobelMask' = ZoneMask(sobelMag, sobelThr.v) /\ errors' = errors
     ELSE sobelMask' = BlankImage /\ errors' = errors \cup {"sobelMask"}
  /\ pc' = IF script = "SOBEL" THEN "orientation" ELSE "share"
  /\ UNCHANGED <<inputVars, sobelMag, sobelThr, sobelOut, enrichOut>>

\* 4) orientation image.
Orientation ==
  /\ pc = "orientation"
  /\ IF "sobelMask" \in errors
     THEN orientation' = BlankImage /\ errors' = errors \cup {"orientation"}
     ELSE orientation' = OrientationImage(sobelX, sobelY, sobelMask) /\ errors' = errors
  /\ pc' = "histogram"
  /\ UNCHANGED <<inputVars, sobelMag, sobelThr, sobelMask, histFC,
                 metricsFC, areaSharePct, enrichOut>>

\* 5) histFC: one feature per bin of BINS.
Histogram ==
  /\ pc = "histogram"
  /\ IF "orientation" \in errors
     THEN histFC' = <<>> /\ errors' = errors \cup {"histFC"}
     ELSE histFC' = HistogramOf(orientation, BIN_SIZE) /\ errors' = errors
  /\ pc' = "overlap"
  /\ UNCHANGED <<inputVars, sobelMag, sobelThr, sobelMask, orientation,
                 metricsFC, areaSharePct, enrichOut>>

\* 6) metricsFC: overlapMetrics of each buffer of BUF_LIST_M, the elements
\* evaluated independently, each stored at its place in the list.
OverlapMetrics(i) ==
  /\ pc = "overlap"
  /\ metricsFC[i].status = "pending"
  /\ metricsFC' = [metricsFC EXCEPT ![i] =
                     IF "sobelMask" \in errors THEN ErrorMetrics
                     ELSE overlapMetrics(sobelMask, FAULTS, BUF_LIST_M[i])]
  /\ UNCHANGED <<inputVars, pc, sobelMag, sobelThr, sobelMask, errors,
                 orientation, histFC, areaSharePct, enrichOut>>

\* 7) area share of the top zone.
AreaShare ==
  /\ pc = "overlap"
  /\ \A i \in 1..Len(BUF_LIST_M) : metricsFC[i].status # "pending"
  /\ IF "sobelMask" \in errors
     THEN areaSharePct' = Zero /\ errors' = errors \cup {"areaSharePct"}
     ELSE areaSharePct' = AreaSharePct(sobelMask) /\ errors' = errors
  /\ pc' = "done"
  /\ UNCHANGED <<inputVars, sobelMag, sobelThr, sobelMask, orientation,
                 histFC, metricsFC, enrichOut>>

NextSobel ==
  \/ SobelFilter
  \/ Threshold
  \/ TopMask
  \/ Orientation
  \/ Histogram
  \/ \E i \in 1..Len(BUF_LIST_M) : OverlapMetrics(i)
  \/ AreaShare

Spec == InitSobel /\ [][NextSobel]_vars


\* ------------------------------------------------------ ENRICHMENT.js steps
InitEnrichment ==
  /\ script = "ENRICHMENT"
  /\ pc = "sobel"
  /\ \E px \in [Cells -> MagPixelInputs] :
       /\ sobelX = [c \in Cells |-> IF px[c].m THEN Px(px[c].v[1]) ELSE Masked]
       /\ sobelY = [c \in Cells |-> IF px[c].m THEN Px(px[c].v[2]) ELSE Masked]
  /\ FAULTS = {}
  /\ DEPOSITS \in {d \in [1..NDeposits -> Locations] :
                    \A i \in 1..(NDeposits - 1) : d[i] <= d[i + 1]}
  /\ sobelMag = BlankImage
  /\ sobelThr = NoThreshold
  /\ sobelMask = BlankImage
  /\ errors = {}
  /\ BlankSobel
  /\ BlankEnrichment

\* 2) sobelThr: the 85th percentile of the magnitude over the region.
EnrThreshold ==
  /\ pc = "threshold"
  /\ script = "ENRICHMENT"
  /\ sobelThr' = Percentile(sobelMag, ENR_TOP_PCTL)
  /\ pc' = "mask"
  /\ UNCHANGED <<inputVars, sobelMag, sobelMask, errors, sobelOut, enrichOut>>

\* 3) top_share_pct
ZoneShare ==
  /\ pc = "share"
  /\ IF "sobelMask" \in errors
     THEN top_share_pct' = Zero /\ errors' = errors \cup {"top_share_pct"}
     ELSE top_share_pct' = SharePct(sobelMask) /\ errors' = errors
  /\ pc' = "flags"
  /\ UNCHANGED <<inputVars, sobelMag, sobelThr, sobelMask, sobelOut,
                 depositsFlagged, dep_inside_pct, enrichment, distEdge_m, results>>

\* 4) depositsFlagged, dep_total, dep_inside, dep_inside_pct
DepositFlags ==
  /\ pc = "flags"
  /\ IF "sobelMask" \in errors
     THEN /\ depositsFlagged' = <<>>
          /\ dep_inside_pct' = Zero
          /\ errors' = errors \cup {"depositsFlagged", "dep_inside_pct"}
     ELSE /\ depositsFlagged' = FlagDeposits(sobelMask, DEPOSITS)
          /\ dep_inside_pct' = InsidePct(FlagDeposits(sobelMask, DEPOSITS))
          /\ errors' = errors
  /\ pc' = "enrichment"
  /\ UNCHANGED <<inputVars, sobelMag, sobelThr, sobelMask, sobelOut,
                 top_share_pct, enrichment, distEdge_m, results>>

\* 5) enrichment = dep_inside_pct / top_share_pct
EnrichmentIndex ==
  /\ pc = "enrichment"
  /\ IF "dep_inside_pct" \in errors
     THEN enrichment' = Zero /\ errors' = errors \cup {"enrichment"}
     ELSE enrichment' = NumDivide(dep_inside_pct, top_share_pct) /\ errors' = errors
  /\ pc' = "edge"
  /\ UNCHANGED <<inputVars, sobelMag, sobelThr, sobelMask, sobelOut,
                 top_share_pct, depositsFlagged, dep_inside_pct, distEdge_m, results>>

\* 8) distEdge_m
EdgeDistance ==
  /\ pc = "edge"
  /\ IF "sobelMask" \in errors
     THEN distEdge_m' = distEdge_m /\ errors' = errors \cup {"distEdge_m"}
     ELSE distEdge_m' = DistEdge(sobelMask) /\ errors' = errors
  /\ pc' = "tradeoff"
  /\ UNCHANGED <<inputVars, sobelMag, sobelThr, sobelMask, sobelOut,
                 top_share_pct, depositsFlagged, dep_inside_pct, enrichment, results>>

\* 9) results: the rows of PCTL_LIST, evaluated independently of each other.
RunPercentile(i) ==
  /\ pc = "tradeoff"
  /\ results[i].status = "pending"
  /\ results' = PlaceRow(results, i, TradeoffRow(sobelMag, DEPOSITS, PCTL_LIST[i]))
  /\ UNCHANGED <<inputVars, pc, sobelMag, sobelThr, sobelMask, errors, sobelOut,
                 top_share_pct, depositsFlagged, dep_inside_pct, enrichment,
                 distEdge_m>>

\* print / export of results once every row is evaluated.
PrintResults ==
  /\ pc = "tradeoff"
  /\ \A i \in 1..Len(PCTL_LIST) : results[i].status # "pending"
  /\ pc' = "done"
  /\ UNCHANGED <<inputVars, sobelMag, sobelThr, sobelMask, errors, sobelOut, enrichOut>>

NextEnrichment ==
  \/ SobelFilter
  \/ EnrThreshold
  \/ TopMask
  \/ ZoneShare
  \/ DepositFlags
  \/ EnrichmentIndex
  \/ EdgeDistance
  \/ \E i \in 1..Len(PCTL_LIST) : RunPercentile(i)
  \/ PrintResults

SpecEnrichment == InitEnrichment /\ [][NextEnrichment]_vars


\* -------------------------------------------------------------- properties
PastMask == pc \notin {"sobel", "threshold", "mask"}

\* C1: for every threshold t and every pixel c, the zone mask is true at c
\* exactly when c has a valid magnitude and magnitude[c] >= t; a pixel with no
\* valid magnitude is never true in the mask.  The script's own mask is the
\* mask of its own threshold.
C1_MaskIffAtLeastThreshold ==
  /\ pc = "threshold" =>
       \A t \in 0..11 :
         LET mask == ZoneMask(sobelMag, t)
         IN  \A c \in Cells :
               /\ mask[c].m <=> (sobelMag[c].m /\ sobelMag[c].v >= t)
               /\ mask[c].m => mask[c].v = 1
  /\ (PastMask /\ sobelThr.ok) =>
       \A c \in Cells :
         /\ sobelMask[c].m <=> (sobelMag[c].m /\ sobelMag[c].v >= sobelThr.v)
         /\ sobelMask[c].m => sobelMask[c].v = 1
         /\ ~sobelMag[c].m => ~sobelMask[c].m

\* A mask with a pixel in the zone, a valid pixel below the threshold and a
\* pixel with no valid magnitude.
C1_Witness ==
  /\ PastMask /\ sobelThr.ok
  /\ \E c \in Cells : sobelMask[c].m
  /\ \E c \in Cells : sobelMag[c].m /\ sobelMag[c].v < sobelThr.v /\ ~sobelMask[c].m
  /\ \E c \in Cells : ~sobelMag[c].m /\ ~sobelMask[c].m

PastOrientation == PastMask /\ pc # "orientation" /\ script = "SOBEL"

\* C2: the orientation ((atan2(gy, gx) in degrees + 360) mod 180 + 90) mod 180
\* of every pixel of the zone mask lies in [0, 180), and every pixel outside
\* the zone mask has no orientation.
C2_OrientationHalfCircle ==
  (PastOrientation /\ "orientation" \notin errors) =>
    \A c \in Cells :
      IF sobelMask[c].m
      THEN /\ orientation[c].m
           /\ orientation[c].v >= 0
           /\ orientation[c].v < 180000
           /\ \E k \in 0..3 :
                orientation[c].v =
                  Atan2Milli(sobelY[c].v, sobelX[c].v) + 90000 + 360000 - k * 180000
      ELSE ~orientation[c].m

\* A masked pixel whose orientation folds to exactly 0, one whose unfolded
\* strike is past 180, and a valid pixel left without orientation.
C2_Witness ==
  /\ PastOrientation
  /\ \E c \in Cells : orientation[c].m /\ orientation[c].v = 0
  /\ \E c \in Cells : orientation[c].m /\ Theta(sobelY[c].v, sobelX[c].v) >= 90000
                      /\ orientation[c].v > 0
  /\ \E c \in Cells : sobelMag[c].m /\ ~orientation[c].m

PastHistogram == PastOrientation /\ pc # "histogram"

RECURSIVE SumCounts(_)
SumCounts(h) == IF h = <<>> THEN 0 ELSE Head(h).count + SumCounts(Tail(h))

HistogramSound(h, orient, w) ==
  /\ Len(h) = 180 \div w
  /\ \A i \in 1..Len(h) :
       /\ h[i].binStart = (i - 1) * w
       /\ h[i].binEnd = i * w
       /\ h[i].count =
            Cardinality({c \in Cells : /\ orient[c].m
                                       /\ orient[c].v >= (i - 1) * w * 1000
                                       /\ orient[c].v < i * w * 1000})
  /\ \A c \in Cells : orient[c].m =>
       Cardinality({i \in 1..Len(h) : /\ orient[c].v >= h[i].binStart * 1000
                                      /\ orient[c].v < h[i].binEnd * 1000}) = 1
  /\ SumCounts(h) = Cardinality({c \in Cells : orient[c].m})

\* C3: for every bin width w dividing 180 the histogram has 180/w bins
\* [0,w), [w,2w), ... in ascending binStart order, every masked pixel with an
\* orientation falls in exactly one bin, an empty bin reports 0, and the
\* counts sum to the number of masked pixels with an orientation.
C3_HistogramPartition ==
  (PastHistogram /\ "histFC" \notin errors) =>
    /\ HistogramSound(histFC, orientation, BIN_SIZE)
    /\ (\A i \in 1..Len(BUF_LIST_M) : metricsFC[i].status = "pending") =>
         \A w \in {5, 30, 45, 90, 180} :
           HistogramSound(HistogramOf(orientation, w), orientation, w)

\* A histogram with an empty bin, a bin holding two pixels, and a pixel whose
\* orientation is exactly a bin start.
C3_Witness ==
  /\ PastHistogram /\ "histFC" \notin errors
  /\ \E i \in 1..Len(histFC) : histFC[i].count = 0
  /\ \E i \in 1..Len(histFC) : histFC[i].count >= 2
  /\ \E c \in Cells : \E i \in 2..Len(histFC) :
       orientation[c].m /\ orientation[c].v = histFC[i].binStart * 1000

Degenerate(f) ==
  \/ NumAdd(f.precision_pct, f.recall_pct) = Zero
  \/ f.area_sobel_km2 = Zero
  \/ f.area_fault_km2 = Zero

\* C7: when precision + recall = 0, or the zone area or the buffered reference
\* area is zero, f1 is reported as undefined, never as zero.
C7_F1UndefinedWhenDegenerate ==
  \A i \in 1..Len(BUF_LIST_M) :
    (metricsFC[i].status = "done" /\ Degenerate(metricsFC[i])) =>
      metricsFC[i].f1_pct # Zero

\* C8: precision = intersection / zone area, recall = intersection / buffer
\* area and f1 = 2 * precision * recall / (precision + recall), in percent,
\* equal the ratios counted on the pixels; a zone of one pixel inside a buffer
\* of four gives 100, 25 and 40.
C8_OverlapRatios ==
  \A i \in 1..Len(BUF_LIST_M) :
    metricsFC[i].status = "done" =>
      LET f     == metricsFC[i]
          zone  == {c \in AOI : sobelMask[c].m}
          buf   == BufGeom(FAULTS, BUF_LIST_M[i])
          nZone == Cardinality(zone)
          nBuf  == Cardinality(buf)
          nInt  == Cardinality(zone \cap buf)
      IN  /\ nZone > 0 => f.precision_pct = Rat(100 * nInt, nZone)
          /\ nBuf > 0 => f.recall_pct = Rat(100 * nInt, nBuf)
          /\ nInt > 0 => f.f1_pct = Rat(200 * nInt, nZone + nBuf)
          /\ nInt > 0 =>
               NumMultiply(f.f1_pct, NumAdd(f.precision_pct, f.recall_pct))
                 = NumMultiply(FromInt(2), NumMultiply(f.precision_pct, f.recall_pct))
          /\ (nZone = 1 /\ nBuf = 4 /\ nInt = 1) =>
               /\ f.precision_pct = FromInt(100)
               /\ f.recall_pct = FromInt(25)
               /\ f.f1_pct = FromInt(40)

\* The worked case: precision 100, recall 25, f1 40.
C8_Witness ==
  \E i \in 1..Len(BUF_LIST_M) :
    /\ metricsFC[i].status = "done"
    /\ Cardinality({c \in AOI : sobelMask[c].m}) = 1
    /\ Cardinality(BufGeom(FAULTS, BUF_LIST_M[i])) = 4
    /\ metricsFC[i].precision_pct = FromInt(100)
    /\ metricsFC[i].recall_pct = FromInt(25)
    /\ metricsFC[i].f1_pct = FromInt(40)

\* A partial overlap (0 < precision < 100, recall < 100) is reachable as well.
PartialOverlapReached ==
  \E i \in 1..Len(BUF_LIST_M) :
    /\ metricsFC[i].status = "done"
    /\ NumLt(Zero, metricsFC[i].precision_pct)
    /\ NumLt(metricsFC[i].precision_pct, FromInt(100))
    /\ NumLt(metricsFC[i].recall_pct, FromInt(100))


\* C4: the trade-off analysis returns one row per percentile of the list, at
\* the place of that percentile in the list, whatever order the rows are
\* evaluated in; each row is the row of the magnitude grid, the deposits and
\* its own percentile, whichever other rows exist.
C4_RowsInInputOrder ==
  /\ DOMAIN results = 1..Len(PCTL_LIST)
  /\ \A i \in 1..Len(PCTL_LIST) :
       results[i].status # "pending" =>
         /\ results[i].percentile = PCTL_LIST[i]
         /\ results[i] = TradeoffRow(sobelMag, DEPOSITS, PCTL_LIST[i])
  /\ pc = "done" /\ script = "ENRICHMENT" =>
       \A i \in 1..Len(PCTL_LIST) : results[i].status # "pending"

\* The last row of the list evaluated while the first is still pending.
C4_Witness ==
  /\ results[Len(PCTL_LIST)].status = "done"
  /\ results[Len(PCTL_LIST)].percentile = 95
  /\ results[1].status = "pending"
  /\ results[2].status = "done"

\* Masked area, km2, of the zone mask at the p-th percentile threshold.
MaskedAreaAt(mag, p) ==
  AreaKm2(UpdateMask(areaImg, ZoneMask(mag, Percentile(mag, p).v)), REGION)

PctlSamples == {0, 10, 25, 50, 70, 75, 80, 85, 90, 95, 100}

\* C5: for every magnitude grid and every two percentiles P1 < P2 over the
\* same region, the masked area at the P1-th percentile threshold is at least
\* the masked area at the P2-th percentile threshold.
C5_AreaMonotoneInPercentile ==
  (pc = "threshold" /\ ValidCells(sobelMag) # {}) =>
    \A p1 \in PctlSamples : \A p2 \in PctlSamples :
      p1 < p2 => NumLe(MaskedAreaAt(sobelMag, p2), MaskedAreaAt(sobelMag, p1))

\* A grid on which the area strictly shrinks from the 70th to the 95th
\* percentile and stays equal from the 90th to the 95th.
C5_Witness ==
  /\ pc = "threshold" /\ script = "ENRICHMENT"
  /\ NumLt(MaskedAreaAt(sobelMag, 95), MaskedAreaAt(sobelMag, 70))
  /\ MaskedAreaAt(sobelMag, 90) = MaskedAreaAt(sobelMag, 95)

AllRowsDone == \A i \in 1..Len(PCTL_LIST) : results[i].status = "done"

\* C6 (as stated): in the trade-off table of [70,75,80,85,90,95] coverage_pct
\* is strictly decreasing as the percentile increases, for every grid.
C6_CoverageStrictlyDecreasing ==
  AllRowsDone =>
    \A i \in 1..Len(PCTL_LIST) : \A j \in 1..Len(PCTL_LIST) :
      i < j => NumLt(results[j].coverage_pct, results[i].coverage_pct)

\* C6 (amended): in the trade-off table of [70,75,80,85,90,95] coverage_pct
\* never increases as the percentile increases: of two evaluated rows the one
\* of the higher percentile has the smaller or equal coverage_pct.
C6_CoverageNonIncreasing ==
  \A i \in 1..Len(PCTL_LIST) : \A j \in 1..Len(PCTL_LIST) :
    (i < j /\ results[i].status = "done" /\ results[j].status = "done") =>
      NumLe(results[j].coverage_pct, results[i].coverage_pct)

\* A complete table whose coverage drops from the first row to the last and
\* is equal in its last two rows.
C6_Witness ==
  /\ pc = "done" /\ AllRowsDone
  /\ NumLt(results[Len(PCTL_LIST)].coverage_pct, results[1].coverage_pct)
  /\ results[Len(PCTL_LIST) - 1].coverage_pct = results[Len(PCTL_LIST)].coverage_pct

PastEdge == script = "ENRICHMENT" /\ pc \in {"tradeoff", "done"}

\* Inside the zone: an unmasked pixel of sobelMask; everything else, the
\* positions beyond the raster included, is outside.
InZone(p) == p \in Cells /\ sobelMask[p].m

BoundaryAdjacent(c) == \E p \in {c - 1, c + 1} : InZone(p) # InZone(c)

\* C9: for a zone mask with inside and outside pixels, distEdge_m is 0 exactly
\* on the pixels adjacent to the mask boundary, strictly positive on every
\* other pixel, and never negative.
C9_EdgeDistanceZeroOnBoundary ==
  (/\ PastEdge /\ "distEdge_m" \notin errors
   /\ \E c \in Cells : InZone(c)
   /\ \E c \in Cells : ~InZone(c)) =>
    \A c \in Cells :
      /\ distEdge_m[c] >= 0
      /\ distEdge_m[c] = 0 <=> BoundaryAdjacent(c)

PastFlags == script = "ENRICHMENT" /\ pc \notin {"sobel", "threshold", "mask", "share", "flags"}

InCoverage(fc) == {i \in 1..Len(fc) : fc[i].loc \in Cells}

\* C10: a deposit outside the raster extent is kept in the output records,
\* flagged out-of-coverage rather than inside_top = 0, and left out of both
\* the numerator and the denominator of dep_inside_pct.
C10_OutOfCoverageExcluded ==
  (PastFlags /\ "depositsFlagged" \notin errors) =>
    /\ Len(depositsFlagged) = Len(DEPOSITS)
    /\ \A i \in 1..Len(DEPOSITS) :
         DEPOSITS[i] \notin Cells => depositsFlagged[i].inside_top \notin {0, 1}
    /\ dep_inside_pct =
         NumMultiply(
           NumDivide(FromInt(Cardinality({i \in InCoverage(depositsFlagged) :
                                            depositsFlagged[i].inside_top = 1})),
                     FromInt(Cardinality(InCoverage(depositsFlagged)))),
           FromInt(100))

\* A batch is evaluated once none of its elements is pending.
Evaluated(batch) == \A i \in DOMAIN batch : batch[i].status # "pending"

\* In an evaluated batch, an element in error leaves every other element
\* with its result record.
SiblingsYield(batch) ==
  Evaluated(batch) =>
    \A i, j \in DOMAIN batch :
      (i # j /\ batch[i].status = "error") => batch[j].status = "done"

\* C11: in the trade-off batch (results) and in the overlap batch (metricsFC),
\* the failure of one element, such as an empty region giving no threshold,
\* does not abort its siblings: every other element of the batch still yields
\* its result record.
C11_FailureDoesNotAbortSiblings ==
  /\ SiblingsYield(results)
  /\ SiblingsYield(metricsFC)

\* The place in PCTL_LIST of the percentile of the single-threshold run.
RowOfTopPctl == CHOOSE i \in 1..Len(PCTL_LIST) : PCTL_LIST[i] = ENR_TOP_PCTL

SingleRunOutputs == {"sobelMask", "top_share_pct", "dep_inside_pct", "enrichment"}

\* C12: on the same grid and deposits, the single-threshold run at
\* TOP_PCTL = 85 and the trade-off row of percentile 85 agree: the row's
\* sobel_thr is sobelThr, its coverage_pct is top_share_pct, its inside_pct is
\* dep_inside_pct and its enrichment is the enrichment index; on a region
\* without a threshold both paths fail.
C12_SingleRunAgreesWithRow85 ==
  (script = "ENRICHMENT" /\ results[RowOfTopPctl].status # "pending") =>
    LET row == results[RowOfTopPctl]
    IN  /\ row.percentile = ENR_TOP_PCTL
        /\ IF row.status = "error"
           THEN ~sobelThr.ok /\ SingleRunOutputs \subseteq errors
           ELSE /\ sobelThr.ok
                /\ SingleRunOutputs \cap errors = {}
                /\ row.sobel_thr = sobelThr.v
                /\ row.coverage_pct = top_share_pct
                /\ row.inside_pct = dep_inside_pct
                /\ row.enrichment = enrichment

\* Both paths evaluated on a grid where the 85th-percentile zone is a quarter
\* of the region and holds the deposit (enrichment 4), while the row of
\* percentile 70 covers a different share.
C12_Witness ==
  /\ script = "ENRICHMENT"
  /\ results[RowOfTopPctl].status = "done"
  /\ results[RowOfTopPctl].enrichment = FromInt(4)
  /\ enrichment = FromInt(4)
  /\ top_share_pct = FromInt(25)
  /\ results[1].status = "done"
  /\ results[1].coverage_pct # top_share_pct

=============================================================================
